---- MODULE Spec2Model ----
(***************************************************************************)
(* A model of codepy/toolchain.py: the toolchain records (Toolchain,       *)
(* GCCLikeToolchain, GCCToolchain, NVCCToolchain, DistutilsToolchain),     *)
(* their registration / transformer operations, the command-line builder,  *)
(* the build operations and the memoized toolchain guessers.               *)
(*                                                                         *)
(* Python lists that the code mutates in place (cflags, undefines,         *)
(* include_dirs, library_dirs) are objects of a heap and a record holds a  *)
(* reference to them, so that two records built from the same keyword      *)
(* dictionary see each other's in-place changes.  Lists that no statement  *)
(* of the file mutates in place (ldflags, defines, libraries: they are     *)
(* only ever rebound) are held by value.                                   *)
(***************************************************************************)
EXTENDS Integers, Sequences, FiniteSets, TLC

VARIABLES
    host,     \* the host environment the process runs in (never changes)
    heap,     \* the list objects: heap[a] is the content of list a
    memoPy,   \* @memoize cache of _guess_toolchain_kwargs_from_python_config
    memoAk,   \* @memoize cache of _guess_toolchain_kwargs_from_distutils_aksetup
    tcs,      \* the toolchain records created so far
    last,     \* the last call made on the heap machine and how it ended
    first,    \* what the first guess_toolchain / guess_nvcc_toolchain returned
    calls,    \* the number of calls made so far
    conf,     \* command-line machine: the configuration under study
    out       \* command-line machine: the last operation and its result

vars == <<host, heap, memoPy, memoAk, tcs, last, first, calls, conf, out>>

(***************************************************************************)
(* Bounds of the model.                                                    *)
(***************************************************************************)
MaxCalls == 4
MaxLevel == 2

(***************************************************************************)
(* Python string and list primitives.                                      *)
(***************************************************************************)
Range(s) == {s[i] : i \in 1..Len(s)}

StartsWith(s, p) == Len(s) >= Len(p) /\ SubSeq(s, 1, Len(p)) = p

Contains(s, sub) ==
    \E i \in 1..(Len(s) - Len(sub) + 1) : SubSeq(s, i, i + Len(sub) - 1) = sub

StripPrefixLen(s, n) == SubSeq(s, n + 1, Len(s))

RECURSIVE SplitWs(_, _, _)
\* str.split(): split on runs of whitespace, no empty words
SplitWs(s, cur, acc) ==
    IF s = "" THEN (IF cur = "" THEN acc ELSE Append(acc, cur))
    ELSE LET c == SubSeq(s, 1, 1)
             rest == SubSeq(s, 2, Len(s))
         IN IF c \in {" ", "\n", "\t"}
            THEN SplitWs(rest, "", IF cur = "" THEN acc ELSE Append(acc, cur))
            ELSE SplitWs(rest, cur \o c, acc)

Split(s) == SplitWs(s, "", <<>>)

RECURSIVE SplitSep(_, _, _, _)
\* str.split(sep) for a one-character sep: empty fields are kept
SplitSep(s, sep, cur, acc) ==
    IF s = "" THEN Append(acc, cur)
    ELSE LET c == SubSeq(s, 1, 1)
             rest == SubSeq(s, 2, Len(s))
         IN IF c = sep
            THEN SplitSep(rest, sep, "", Append(acc, cur))
            ELSE SplitSep(rest, sep, cur \o c, acc)

SplitOn(s, sep) == SplitSep(s, sep, "", <<>>)

RECURSIVE Join(_, _)
\* sep.join(l)
Join(sep, l) ==
    IF l = <<>> THEN ""
    ELSE IF Len(l) = 1 THEN l[1]
    ELSE l[1] \o sep \o Join(sep, Tail(l))

Digits == <<"0", "1", "2", "3", "4", "5", "6", "7", "8", "9">>

IsDigit(c) == c \in Range(Digits)

DigitVal(c) == (CHOOSE i \in 1..10 : Digits[i] = c) - 1

\* int(n) succeeds on a non-empty string of decimal digits
IsInt(n) == n # "" /\ \A i \in 1..Len(n) : IsDigit(SubSeq(n, i, i))

RECURSIVE IntAcc(_, _)
IntAcc(n, acc) ==
    IF n = "" THEN acc
    ELSE IntAcc(SubSeq(n, 2, Len(n)), 10 * acc + DigitVal(SubSeq(n, 1, 1)))

ParseInt(n) == IntAcc(n, 0)

RECURSIVE MapPrefix(_, _)
\* ["<opt>%s" % x for x in l]
MapPrefix(opt, l) ==
    IF l = <<>> THEN <<>> ELSE <<opt \o Head(l)>> \o MapPrefix(opt, Tail(l))

RECURSIVE RemoveFirst(_, _)
\* list.remove(x): drops the first occurrence only
RemoveFirst(l, x) ==
    IF l = <<>> THEN <<>>
    ELSE IF Head(l) = x THEN Tail(l)
    ELSE <<Head(l)>> \o RemoveFirst(Tail(l), x)

\* lexicographic >= of two tuples of integers, as Python compares tuples
RECURSIVE TupleGE(_, _)
TupleGE(a, b) ==
    IF b = <<>> THEN TRUE
    ELSE IF a = <<>> THEN FALSE
    ELSE IF Head(a) # Head(b) THEN Head(a) > Head(b)
    ELSE TupleGE(Tail(a), Tail(b))

(***************************************************************************)
(* Toolchain.add_library on the values of the fields.                      *)
(***************************************************************************)
RECURSIVE AppendNew(_, _)
\* for d in dirs: if not d in l: l.append(d)
AppendNew(l, dirs) ==
    IF dirs = <<>> THEN l
    ELSE AppendNew(IF Head(dirs) \in Range(l) THEN l ELSE Append(l, Head(dirs)),
                   Tail(dirs))

\* two slips C7 and C6 rule out: the new names after the old ones, the old ones lost
AppendLibraries(libraries, old) == old \o libraries
OnlyNewLibraries(libraries, old) == libraries

\* self.libraries = libraries + self.libraries
PrependLibraries(libraries, old) == libraries \o old

\* the slip C1 rules out: no test of the feature set
AddLibraryValUnguarded(c, feature, include_dirs, library_dirs, libraries) ==
    [c EXCEPT !.features = c.features \cup {feature},
              !.include_dirs = AppendNew(c.include_dirs, include_dirs),
              !.library_dirs = AppendNew(c.library_dirs, library_dirs),
              !.libraries = PrependLibraries(libraries, c.libraries)]

\* c: the field values of a GCC / NVCC record
AddLibraryVal(c, feature, include_dirs, library_dirs, libraries) ==
    IF feature \in c.features THEN c
    ELSE [c EXCEPT !.features = c.features \cup {feature},
                   !.include_dirs = AppendNew(c.include_dirs, include_dirs),
                   !.library_dirs = AppendNew(c.library_dirs, library_dirs),
                   !.libraries = PrependLibraries(libraries, c.libraries)]

\* distutils' CCompiler.add_include_dir / add_library_dir / add_library append
CompilerAdd(comp, include_dirs, library_dirs, libraries) ==
    [include_dirs |-> comp.include_dirs \o include_dirs,
     library_dirs |-> comp.library_dirs \o library_dirs,
     libraries |-> comp.libraries \o libraries]

(***************************************************************************)
(* GCCLikeToolchain.enable_debugging and the flag filter of                *)
(* GCCToolchain.with_optimization_level, on the values.                    *)
(***************************************************************************)
RECURSIVE RemovePrefix(_, _)
\* [f for f in l if not f.startswith(prefix)]
RemovePrefix(l, prefix) ==
    IF l = <<>> THEN <<>>
    ELSE (IF StartsWith(Head(l), prefix) THEN <<>> ELSE <<Head(l)>>)
         \o RemovePrefix(Tail(l), prefix)

EnableDebuggingCflags(cflags) == RemovePrefix(cflags, "-O") \o <<"-g">>

OptPrefixes == <<"-O", "-g", "-march", "-mtune", "-DNDEBUG">>

RECURSIVE RemovePrefixes(_, _)
\* for pfx in [...]: cflags = remove_prefix(cflags, pfx)
RemovePrefixes(l, pfxs) ==
    IF pfxs = <<>> THEN l
    ELSE RemovePrefixes(RemovePrefix(l, Head(pfxs)), Tail(pfxs))

(***************************************************************************)
(* GCCLikeToolchain.get_version and GCCToolchain.get_version_tuple.        *)
(***************************************************************************)
\* call_capture_output([cc, "--version"]) on this host
VersionQuery(h) == h.version

GetVersionRaises(h) == VersionQuery(h).rc # 0

GetVersion(h) == VersionQuery(h).out

RECURSIVE IntsUntilBad(_)
\* for n in numbers: try: result.append(int(n)) except ValueError: break
IntsUntilBad(numbers) ==
    IF numbers = <<>> THEN <<>>
    ELSE IF IsInt(Head(numbers))
         THEN <<ParseInt(Head(numbers))>> \o IntsUntilBad(Tail(numbers))
         ELSE <<>>

VersionWords(h) == Split(SplitOn(GetVersion(h), "\n")[1])

\* words[2] raises IndexError on a banner whose first line has under 3 words
GetVersionTupleRaises(h) == GetVersionRaises(h) \/ Len(VersionWords(h)) < 3

GetVersionTuple(h) == IntsUntilBad(SplitOn(VersionWords(h)[3], "."))

(***************************************************************************)
(* GCCToolchain.with_optimization_level on the values.                     *)
(***************************************************************************)
\* the optimization levels a caller passes: "debug" or an integer
Debug == [kind |-> "debug", n |-> 0]
IntLevel(k) == [kind |-> "int", n |-> k]
Levels == {Debug} \cup {IntLevel(k) : k \in 0..MaxLevel}

\* the slip C10 rules out: the version test alone
NativeGatedAnyLevel(level, h) == TupleGE(GetVersionTuple(h), <<4, 3>>)

\* level >= 2 and self.get_version_tuple() >= (4,3), on host h: the version is
\* queried only when level >= 2
NativeGated(level, h) == level.n >= 2 /\ TupleGE(GetVersionTuple(h), <<4, 3>>)

Oflags(level, h) ==
    IF level = Debug THEN <<"-g">>
    ELSE <<"-O" \o ToString(level.n), "-DNDEBUG">>
         \o (IF NativeGated(level, h)
             THEN <<"-march=native", "-mtune=native">> ELSE <<>>)

OptCflags(cflags, level, h) ==
    RemovePrefixes(cflags, OptPrefixes) \o Oflags(level, h)

(***************************************************************************)
(* GCCToolchain._cmdline / NVCCToolchain._cmdline (the two are the same    *)
(* code), GCCLikeToolchain.get_dependencies and abi_id.                    *)
(***************************************************************************)
LdOptions(c, object) == IF object THEN <<"-c">> ELSE c.ldflags

\* the slip C9 rules out: the library names before the library directories
LinkTailLibrariesFirst(c, object) ==
    IF object THEN <<>>
    ELSE MapPrefix("-l", c.libraries) \o MapPrefix("-L", c.library_dirs)

LinkTail(c, object) ==
    IF object THEN <<>>
    ELSE MapPrefix("-L", c.library_dirs) \o MapPrefix("-l", c.libraries)

\* GCCToolchain._cmdline
GccCmdline(c, files, object) ==
    <<c.cc>> \o c.cflags \o LdOptions(c, object)
    \o MapPrefix("-D", c.defines)
    \o MapPrefix("-U", c.undefines)
    \o MapPrefix("-I", c.include_dirs)
    \o files
    \o LinkTail(c, object)

\* NVCCToolchain._cmdline
NvccCmdline(c, files, object) ==
    LET ldflags == IF object THEN <<"-c">> ELSE c.ldflags
        load == IF object THEN <<>>
                ELSE MapPrefix("-L", c.library_dirs) \o MapPrefix("-l", c.libraries)
    IN <<c.cc>> \o c.cflags \o ldflags
       \o MapPrefix("-D", c.defines)
       \o MapPrefix("-U", c.undefines)
       \o MapPrefix("-I", c.include_dirs)
       \o files
       \o load

\* self._cmdline(files, object) of a GCC or an NVCC record
Cmdline(c, files, object) ==
    IF c.family = "nvcc" THEN NvccCmdline(c, files, object)
    ELSE GccCmdline(c, files, object)

DependencyArgv(c, source_files) ==
    <<c.cc>> \o <<"-M">>
    \o MapPrefix("-D", c.defines)
    \o MapPrefix("-U", c.defines)
    \o MapPrefix("-I", c.include_dirs)
    \o source_files

SysVersion == "2.6.4 (r264)"

\* the variant C5 (as amended) rules out: the object-mode command line
AbiCmdlineObjectMode(c) == Cmdline(c, <<>>, TRUE)

\* _cmdline([]) is called with its default object=False
AbiCmdline(c) == Cmdline(c, <<>>, FALSE)

AbiId(c, h) == <<GetVersion(h), SysVersion, AbiCmdline(c)>>

(***************************************************************************)
(* The host environment: the build metadata parse_makefile() reads, the    *)
(* answer of "<cc> --version", sys.maxint, and what distutils / aksetup    *)
(* report.  It is chosen once and never changes.                           *)
(***************************************************************************)
MakeVars ==
    [CXX |-> "g++",
     CFLAGS |-> "-O2 -DNDEBUG -Wstrict-prototypes -UDBG",
     CFLAGSFORSHARED |-> "-fPIC",
     LDSHARED |-> "g++ -shared",
     LINKFORSHARED |-> "-rdynamic",
     LIBS |-> "-ldl",
     INCLUDEPY |-> "/py/inc",
     LIBDIR |-> "/py/lib"]

AkSetup ==
    [include_dirs |-> <<"/py/inc">>, library_dirs |-> <<>>,
     CXXFLAGS |-> <<"-O1">>, LDFLAGS |-> <<>>]

HostEnv(metadata, rc, banner, maxint32) ==
    [metadata |-> metadata, make_vars |-> MakeVars, aksetup |-> AkSetup,
     version |-> [rc |-> rc, out |-> banner], maxint32 |-> maxint32]

HostEnvs ==
    {HostEnv(TRUE, 0, "g++ (GCC) 4.3.2\nFree Software Foundation", FALSE),
     HostEnv(TRUE, 0, "darwin-g++ (GCC) 4.2.1\nFree Software Foundation", TRUE),
     HostEnv(TRUE, 1, "", FALSE),
     HostEnv(TRUE, 0, "icpc (ICC) 11.1", FALSE),
     HostEnv(FALSE, 0, "cl 15.0", FALSE)}

(***************************************************************************)
(* _guess_toolchain_kwargs_from_python_config: the keyword dictionary, by  *)
(* value.  so_ext, o_ext and ld are carried along by the code and read by  *)
(* no operation of this file; they are left out.                           *)
(***************************************************************************)
IsDefine(cflag) == StartsWith(cflag, "-D")
IsUndefine(cflag) == ~StartsWith(cflag, "-D") /\ StartsWith(cflag, "-U")
IsPlainFlag(cflag) == ~StartsWith(cflag, "-D") /\ ~StartsWith(cflag, "-U")

RECURSIVE StripAll(_, _)
StripAll(l, n) ==
    IF l = <<>> THEN <<>> ELSE <<StripPrefixLen(Head(l), n)>> \o StripAll(Tail(l), n)

\* strip_prefix(pfx, value)
StripPrefix(pfx, value) ==
    IF StartsWith(value, pfx) THEN StripPrefixLen(value, Len(pfx)) ELSE value

RECURSIVE StripLibs(_)
StripLibs(l) ==
    IF l = <<>> THEN <<>> ELSE <<StripPrefix("-l", Head(l))>> \o StripLibs(Tail(l))

PyKwargs(mv) ==
    LET cc_cmdline == Split(mv.CXX) \o Split(mv.CFLAGS) \o Split(mv.CFLAGSFORSHARED)
        rest == Tail(cc_cmdline)
    IN [cc |-> cc_cmdline[1],
        cflags |-> SelectSeq(rest, IsPlainFlag),
        ldflags |-> Tail(Split(mv.LDSHARED)) \o Split(mv.LINKFORSHARED),
        libraries |-> StripLibs(Split(mv.LIBS)),
        include_dirs |-> <<mv.INCLUDEPY>>,
        library_dirs |-> <<mv.LIBDIR>>,
        defines |-> StripAll(SelectSeq(rest, IsDefine), 2),
        undefines |-> StripAll(SelectSeq(rest, IsUndefine), 2)]

\* _guess_toolchain_kwargs_from_distutils_aksetup (the dictionary has no cc)
AkKwargs(ak) ==
    [cc |-> "",
     cflags |-> ak.CXXFLAGS,
     ldflags |-> ak.LDFLAGS,
     libraries |-> <<>>,
     include_dirs |-> ak.include_dirs,
     library_dirs |-> ak.library_dirs,
     defines |-> <<>>,
     undefines |-> <<>>]

(***************************************************************************)
(* The heap.  A list object is an index of heap; a dictionary or a record  *)
(* holds the indices of its cflags, undefines, include_dirs and            *)
(* library_dirs lists.                                                     *)
(***************************************************************************)
\* the lists of a fresh keyword dictionary become objects h[Len(h)+1..Len(h)+4]
StoreKwargs(h, kw) ==
    [heap |-> h \o <<kw.cflags, kw.undefines, kw.include_dirs, kw.library_dirs>>,
     memo |-> <<[kw EXCEPT !.cflags = Len(h) + 1, !.undefines = Len(h) + 2,
                           !.include_dirs = Len(h) + 3, !.library_dirs = Len(h) + 4]>>]

\* @memoize: the dictionary object computed by the first call is returned again
Memoized(h, memo, kw) ==
    IF memo # <<>> THEN [heap |-> h, memo |-> memo] ELSE StoreKwargs(h, kw)

Refs(d) == <<d.cflags, d.undefines, d.include_dirs, d.library_dirs>>

RECURSIVE AllRefs(_)
AllRefs(ds) == IF ds = <<>> THEN <<>> ELSE Refs(Head(ds)) \o AllRefs(Tail(ds))

RECURSIVE Distinct(_, _)
Distinct(s, acc) ==
    IF s = <<>> THEN acc
    ELSE Distinct(Tail(s), IF Head(s) \in Range(acc) THEN acc ELSE Append(acc, Head(s)))

Renamed(d, ren) ==
    [d EXCEPT !.cflags = ren[d.cflags], !.undefines = ren[d.undefines],
              !.include_dirs = ren[d.include_dirs],
              !.library_dirs = ren[d.library_dirs]]

\* The next state: list objects nothing refers to any more are reclaimed, and the
\* live ones are numbered in the order the dictionaries and records reach them
\* (an object's address is not observable).
Commit(h, mp, ma, ts) ==
    \E s \in {[h |-> h, mp |-> mp, ma |-> ma, ts |-> ts]} :
    \E live \in {Distinct(AllRefs(s.mp \o s.ma \o s.ts), <<>>)} :
    \E ren \in {[a \in Range(live) |-> CHOOSE i \in 1..Len(live) : live[i] = a]} :
       /\ heap' = [i \in 1..Len(live) |-> s.h[live[i]]]
       /\ memoPy' = [i \in 1..Len(s.mp) |-> Renamed(s.mp[i], ren)]
       /\ memoAk' = [i \in 1..Len(s.ma) |-> Renamed(s.ma[i], ren)]
       /\ tcs' = [i \in 1..Len(s.ts) |-> Renamed(s.ts[i], ren)]

\* the field values of record t
Fields(h, t) ==
    [family |-> t.family, cc |-> t.cc, cflags |-> h[t.cflags], ldflags |-> t.ldflags,
     defines |-> t.defines, undefines |-> h[t.undefines],
     include_dirs |-> h[t.include_dirs], library_dirs |-> h[t.library_dirs],
     libraries |-> t.libraries, features |-> t.features, compiler |-> t.compiler]

\* Toolchain.__init__: Record.__init__ binds every keyword to the object passed,
\* then self.features = set().  parent, inherited and base are history (not program
\* state): the record this one was copied from, the features that record had at
\* that moment, and this record's library list at construction.
NewToolchain(family, kw, compiler, parent) ==
    [family |-> family, cc |-> kw.cc, cflags |-> kw.cflags, ldflags |-> kw.ldflags,
     defines |-> kw.defines, undefines |-> kw.undefines,
     include_dirs |-> kw.include_dirs, library_dirs |-> kw.library_dirs,
     libraries |-> kw.libraries, features |-> {}, compiler |-> compiler,
     parent |-> parent,
     inherited |-> IF parent = 0 THEN {} ELSE tcs[parent].features,
     base |-> kw.libraries, regs |-> <<>>]

NoCompiler == <<>>

\* distutils.ccompiler.new_compiler(), then add_include_dir / add_library_dir of
\* each directory of the record
NewCompiler(include_dirs, library_dirs) ==
    CompilerAdd([include_dirs |-> <<>>, library_dirs |-> <<>>, libraries |-> <<>>],
                include_dirs, library_dirs, <<>>)

(***************************************************************************)
(* The calls, as recorded in last: the operation, the record it was called *)
(* on, the record it returned, whether it raised, the feature passed to    *)
(* add_library and whether the record already had it, the level passed.    *)
(***************************************************************************)
NoCall ==
    [op |-> "none", rec |-> 0, new |-> 0, raised |-> FALSE, repeated |-> FALSE,
     feature |-> "", level |-> Debug]

Returned(op, rec, new) == [NoCall EXCEPT !.op = op, !.rec = rec, !.new = new]

Raised(op, rec) == [NoCall EXCEPT !.op = op, !.rec = rec, !.raised = TRUE]

\* the fields a guess is compared on
GuessView(c) ==
    [cc |-> c.cc, cflags |-> c.cflags, ldflags |-> c.ldflags, defines |-> c.defines,
     undefines |-> c.undefines, include_dirs |-> c.include_dirs,
     library_dirs |-> c.library_dirs, libraries |-> c.libraries]

Remember(slot, value) ==
    first' = IF first[slot] = <<>> THEN [first EXCEPT ![slot] = <<value>>] ELSE first

Called ==
    /\ calls < MaxCalls
    /\ calls' = calls + 1
    /\ UNCHANGED <<host, conf, out>>

(***************************************************************************)
(* The arguments callers pass.                                             *)
(***************************************************************************)
Features == {"boost", "cuda"}
IncludeArgs == {<<"/a/inc">>, <<"/py/inc", "/b/inc", "/b/inc">>}
LibraryDirArgs == {<<"/py/lib", "/a/lib">>}
LibraryArgs == {<<"x">>, <<"y", "z">>}

\* copy(**kwargs): the overrides a caller passes, a field name -> a new list
NoOverride == [f \in {} |-> <<>>]
CopyOverrides == {NoOverride, [f \in {"include_dirs"} |-> <<"/c/inc">>]}

(***************************************************************************)
(* The heap machine.                                                       *)
(***************************************************************************)
Init ==
    /\ host \in HostEnvs
    /\ heap = <<>>
    /\ memoPy = <<>>
    /\ memoAk = <<>>
    /\ tcs = <<>>
    /\ last = NoCall
    /\ first = [guess_toolchain |-> <<>>, guess_nvcc_toolchain |-> <<>>]
    /\ calls = 0
    /\ conf = <<>>
    /\ out = <<>>

\* guess_distutils_toolchain()
GuessDistutilsToolchain(op) ==
    \E m \in {Memoized(heap, memoAk, AkKwargs(host.aksetup))} :
    \E t \in {NewToolchain("distutils", m.memo[1],
                           <<NewCompiler(m.heap[m.memo[1].include_dirs],
                                         m.heap[m.memo[1].library_dirs])>>, 0)} :
       /\ Commit(m.heap, memoPy, m.memo, Append(tcs, t))
       /\ last' = Returned(op, 0, Len(tcs) + 1)
       /\ Remember(op, GuessView(Fields(m.heap, t)))

\* the GNU branch of guess_toolchain(): kwargs["cflags"] is changed in place
GnuCflags(cflags, version, maxint32) ==
    LET stripped == IF "-Wstrict-prototypes" \in Range(cflags)
                    THEN RemoveFirst(cflags, "-Wstrict-prototypes") ELSE cflags
    IN IF Contains(version, "darwin") /\ maxint32
       THEN stripped \o <<"-arch", "i386">> ELSE stripped

\* guess_toolchain()
GuessToolchain ==
    /\ Called
    /\ IF ~host.metadata
       THEN GuessDistutilsToolchain("guess_toolchain")
       ELSE \E m \in {Memoized(heap, memoPy, PyKwargs(host.make_vars))} :
            \E q \in {VersionQuery(host)} :
               IF q.rc # 0 \/ ~Contains(q.out, "Free Software Foundation")
               THEN /\ Commit(m.heap, m.memo, memoAk, tcs)
                    /\ last' = Raised("guess_toolchain", 0)
                    /\ UNCHANGED first
               ELSE \E kw \in {m.memo[1]} :
                    \E h2 \in {[m.heap EXCEPT ![kw.cflags] =
                                   GnuCflags(@, q.out, host.maxint32)]} :
                    \E t \in {NewToolchain("gcc", kw, NoCompiler, 0)} :
                       /\ Commit(h2, m.memo, memoAk, Append(tcs, t))
                       /\ last' = Returned("guess_toolchain", 0, Len(tcs) + 1)
                       /\ Remember("guess_toolchain", GuessView(Fields(h2, t)))

\* guess_nvcc_toolchain()
GuessNvccToolchain ==
    /\ Called
    /\ \E m \in {IF host.metadata
                 THEN Memoized(heap, memoPy, PyKwargs(host.make_vars))
                 ELSE Memoized(heap, memoAk, AkKwargs(host.aksetup))} :
       \E hk \in {m.memo[1]} :
       \E h2 \in {[m.heap EXCEPT ![hk.undefines] = Append(@, "__BLOCKS__")]
                  \o <<<<"-Xcompiler", Join(",", m.heap[hk.cflags])>>>>} :
       \E t \in {NewToolchain("nvcc",
                              [hk EXCEPT !.cc = "nvcc", !.ldflags = <<>>,
                                         !.cflags = Len(m.heap) + 1],
                              NoCompiler, 0)} :
          /\ Commit(h2, IF host.metadata THEN m.memo ELSE memoPy,
                    IF host.metadata THEN memoAk ELSE m.memo, Append(tcs, t))
          /\ last' = Returned("guess_nvcc_toolchain", 0, Len(tcs) + 1)
          /\ Remember("guess_nvcc_toolchain", GuessView(Fields(h2, t)))

\* Toolchain.add_library / DistutilsToolchain.add_library on record i.  regs is
\* history: the registrations that were not ignored, in order.
AddLibrary(i, feature, include_dirs, library_dirs, libraries) ==
    /\ Called
    /\ \E t \in {tcs[i]} :
       \E c \in {AddLibraryVal(Fields(heap, t), feature, include_dirs, library_dirs,
                               libraries)} :
       \E regs \in {IF feature \in t.features THEN t.regs
                    ELSE Append(t.regs, [feature |-> feature,
                                         include_dirs |-> include_dirs,
                                         library_dirs |-> library_dirs,
                                         libraries |-> libraries])} :
          /\ IF t.family = "distutils"
             THEN Commit(heap, memoPy, memoAk,
                         [tcs EXCEPT ![i] =
                             IF feature \in t.features THEN t
                             ELSE [t EXCEPT !.features = t.features \cup {feature},
                                            !.compiler = <<CompilerAdd(t.compiler[1],
                                                include_dirs, library_dirs, libraries)>>,
                                            !.regs = regs]])
             ELSE Commit([heap EXCEPT ![t.include_dirs] = c.include_dirs,
                                      ![t.library_dirs] = c.library_dirs],
                         memoPy, memoAk,
                         [tcs EXCEPT ![i] = [t EXCEPT !.libraries = c.libraries,
                                                      !.features = c.features,
                                                      !.regs = regs]])
          /\ last' = [Returned("add_library", i, 0) EXCEPT
                         !.repeated = feature \in t.features, !.feature = feature]
          /\ UNCHANGED first

\* GCCLikeToolchain.enable_debugging on record i: cflags is rebound to a new list
EnableDebugging(i) ==
    /\ Called
    /\ \E t \in {tcs[i]} :
          /\ t.family \in {"gcc", "nvcc"}
          /\ Commit(Append(heap, EnableDebuggingCflags(heap[t.cflags])), memoPy, memoAk,
                    [tcs EXCEPT ![i] = [t EXCEPT !.cflags = Len(heap) + 1]])
          /\ last' = Returned("enable_debugging", i, 0)
          /\ UNCHANGED first

RefFields == <<"cflags", "undefines", "include_dirs", "library_dirs">>

RECURSIVE ApplyOverrides(_, _, _, _)
\* kwargs[f] is the caller's object where given, the receiver's own object otherwise
ApplyOverrides(h, kw, ov, fields) ==
    IF fields = <<>> THEN [heap |-> h, kw |-> kw]
    ELSE LET f == Head(fields)
         IN IF f \in DOMAIN ov
            THEN ApplyOverrides(Append(h, ov[f]), [kw EXCEPT ![f] = Len(h) + 1], ov,
                                Tail(fields))
            ELSE ApplyOverrides(h, kw, ov, Tail(fields))

\* Record.copy (pytools) as Toolchain uses it: for every field not overridden,
\* kwargs[f] = getattr(self, f); return self.__class__(**kwargs), which runs
\* Toolchain.__init__.  DistutilsToolchain.copy drops the caller's overrides and
\* passes a deep copy of its compiler.
CopyRecord(i, ov, call) ==
    \E t \in {tcs[i]} :
    \E a \in {ApplyOverrides(heap, t, IF t.family = "distutils" THEN NoOverride ELSE ov,
                             RefFields)} :
       /\ Commit(a.heap, memoPy, memoAk,
                 Append(tcs, NewToolchain(t.family, a.kw, t.compiler, i)))
       /\ last' = [call EXCEPT !.new = Len(tcs) + 1]

\* r.copy(**ov)
Copy(i, ov) ==
    /\ Called
    /\ CopyRecord(i, ov, Returned("copy", i, 0))
    /\ UNCHANGED first

\* `level >= 2 and ...` calls get_version_tuple() only when level >= 2
NeedsVersion(level) == level # Debug /\ level.n >= 2

\* GCCToolchain.with_optimization_level(level) on record i
WithOptimizationLevel(i, level) ==
    /\ Called
    /\ tcs[i].family = "gcc"
    /\ \E call \in {[Returned("with_optimization_level", i, 0) EXCEPT !.level = level]} :
          IF NeedsVersion(level) /\ GetVersionTupleRaises(host)
          THEN /\ last' = [call EXCEPT !.raised = TRUE]
               /\ UNCHANGED <<heap, memoPy, memoAk, tcs>>
          ELSE CopyRecord(i, [f \in {"cflags"} |->
                                 OptCflags(heap[tcs[i].cflags], level, host)], call)
    /\ UNCHANGED first

Next ==
    \/ GuessToolchain
    \/ GuessNvccToolchain
    \/ \E i \in 1..Len(tcs), feature \in Features, include_dirs \in IncludeArgs,
          library_dirs \in LibraryDirArgs, libraries \in LibraryArgs :
          AddLibrary(i, feature, include_dirs, library_dirs, libraries)
    \/ \E i \in 1..Len(tcs) : EnableDebugging(i)
    \/ \E i \in 1..Len(tcs), ov \in CopyOverrides : Copy(i, ov)
    \/ \E i \in 1..Len(tcs), level \in Levels : WithOptimizationLevel(i, level)

Spec == Init /\ [][Next]_vars

(***************************************************************************)
(* The command-line machine: one configuration, given by the values of its *)
(* fields, and the operations that read it.  The process-spawn             *)
(* collaborator answers any exit status and any standard error.            *)
(***************************************************************************)
Confs ==
    [family : {"gcc", "nvcc"},
     cc : {"cc"},
     cflags : {<<>>, <<"-O2", "-fPIC">>},
     ldflags : {<<>>, <<"-shared">>},
     defines : {<<>>, <<"NDEBUG", "A=1">>},
     undefines : {<<>>, <<"__BLOCKS__">>},
     include_dirs : {<<>>, <<"/py/inc">>},
     library_dirs : {<<>>, <<"/py/lib", "/a/lib">>},
     libraries : {<<>>, <<"dl", "m">>},
     features : {{}, {"mpi"}},
     compiler : {NoCompiler}]

FileArgs == {<<>>, <<"a.cpp", "b.cpp">>}
ExitStatuses == {0, 1}
StderrTexts == {"", "x.cu: error: identifier undefined", "warning: Error ignored"}

NoOut == [op |-> "none"]

InitCmd ==
    /\ host \in HostEnvs
    /\ heap = <<>>
    /\ memoPy = <<>>
    /\ memoAk = <<>>
    /\ tcs = <<>>
    /\ last = NoCall
    /\ first = [guess_toolchain |-> <<>>, guess_nvcc_toolchain |-> <<>>]
    /\ calls = 0
    /\ conf \in Confs
    /\ out = NoOut

\* one operation is applied to the configuration drawn, and reads it only
Reads ==
    /\ out = NoOut
    /\ UNCHANGED <<host, heap, memoPy, memoAk, tcs, last, first, calls, conf>>

\* conf._cmdline(files, object)
DoCmdline(files, object) ==
    /\ Reads
    /\ out' = [op |-> "_cmdline", files |-> files, object |-> object,
               argv |-> Cmdline(conf, files, object)]

\* conf.abi_id(): Toolchain.abi_id(self) + [self._cmdline([])]
DoAbiId ==
    /\ Reads
    /\ out' = IF GetVersionRaises(host)
              THEN [op |-> "abi_id", raised |-> TRUE]
              ELSE [op |-> "abi_id", raised |-> FALSE, value |-> AbiId(conf, host)]

\* conf.get_dependencies(source_files): the argument vector handed to
\* call_capture_output, and whether CompileError is raised
DoGetDependencies(source_files, result) ==
    /\ Reads
    /\ out' = [op |-> "get_dependencies", files |-> source_files,
               argv |-> DependencyArgv(conf, source_files), rc |-> result,
               raised |-> result # 0]

\* GCCLikeToolchain.build_object / build_extension / link_extension: call(cc_cmdline)
GccLikeBuildRaises(result, stderr) == result # 0

\* NVCCToolchain.build_object: call_capture_output(cc_cmdline), then the scan of stderr
NvccBuildObjectRaises(result, stderr) ==
    (IF Contains(stderr, "error") THEN 1 ELSE result) # 0

BuildOps == {"build_object", "build_extension", "link_extension"}

BuildRaises(family, op, result, stderr) ==
    IF family = "nvcc" /\ op = "build_object"
    THEN NvccBuildObjectRaises(result, stderr)
    ELSE GccLikeBuildRaises(result, stderr)

\* conf.<op>(ext_file, files) where the spawned process ends with result and stderr
DoBuild(op, files, result, stderr) ==
    /\ Reads
    /\ out' = [op |-> op, files |-> files,
               argv |-> Cmdline(conf, files, op = "build_object") \o <<"-o", "out.so">>,
               rc |-> result, stderr |-> stderr,
               raised |-> BuildRaises(conf.family, op, result, stderr)]

\* add_library of two distinct features, not registered yet, in both orders
DoAddLibraryBothOrders(fa, ia, la, na, fb, ib, lb, nb) ==
    /\ Reads
    /\ fa # fb
    /\ fa \notin conf.features
    /\ fb \notin conf.features
    /\ out' = [op |-> "add_library", fa |-> fa, fb |-> fb,
               ab |-> AddLibraryVal(AddLibraryVal(conf, fa, ia, la, na), fb, ib, lb, nb),
               ba |-> AddLibraryVal(AddLibraryVal(conf, fb, ib, lb, nb), fa, ia, la, na)]

NextCmd ==
    \/ \E files \in FileArgs, object \in BOOLEAN : DoCmdline(files, object)
    \/ DoAbiId
    \/ \E files \in FileArgs, result \in ExitStatuses : DoGetDependencies(files, result)
    \/ \E op \in BuildOps, files \in FileArgs, result \in ExitStatuses,
          stderr \in StderrTexts : DoBuild(op, files, result, stderr)
    \/ \E fa \in Features, fb \in Features, ia \in IncludeArgs, ib \in IncludeArgs,
          la \in LibraryDirArgs, lb \in LibraryDirArgs, na \in LibraryArgs,
          nb \in LibraryArgs : DoAddLibraryBothOrders(fa, ia, la, na, fb, ib, lb, nb)

SpecCmd == InitCmd /\ [][NextCmd]_vars

(***************************************************************************)
(* The properties.                                                         *)
(***************************************************************************)
Records == 1..Len(tcs)

\* what add_library is to leave alone: the record's directories, libraries and
\* features (and, for the distutils family, the compiler handle they are kept in)
Registration(i) ==
    [include_dirs |-> heap[tcs[i].include_dirs],
     library_dirs |-> heap[tcs[i].library_dirs],
     libraries |-> tcs[i].libraries,
     features |-> tcs[i].features,
     compiler |-> tcs[i].compiler]

\* add_library(f, ...) was called on record i before
RegisteredBefore(i, f) == \E k \in 1..Len(tcs[i].regs) : tcs[i].regs[k].feature = f

\* C1: on one record, an add_library call whose feature name was already passed to
\* an earlier add_library call on that record leaves include_dirs, library_dirs,
\* libraries and features exactly as they were before the call, whatever the
\* other arguments are.
C1_RepeatedFeatureIsNoOp ==
    [][\A i \in Records :
          (last'.op = "add_library" /\ last'.rec = i /\ calls' = calls + 1
           /\ RegisteredBefore(i, last'.feature))
          => Registration(i)' = Registration(i)]_vars

C1_Witness ==
    /\ last.op = "add_library"
    /\ last.repeated
    /\ RegisteredBefore(last.rec, last.feature)
    /\ Len(tcs[last.rec].regs) = 1

\* the field values of record i that C2 names
FieldValues(i) ==
    [cflags |-> heap[tcs[i].cflags], ldflags |-> tcs[i].ldflags,
     defines |-> tcs[i].defines, undefines |-> heap[tcs[i].undefines],
     include_dirs |-> heap[tcs[i].include_dirs],
     library_dirs |-> heap[tcs[i].library_dirs],
     libraries |-> tcs[i].libraries, features |-> tcs[i].features]

\* j was derived from i by copy or with_optimization_level
DerivedFrom(j, i) == tcs[j].parent = i

\* C2: once r2 is derived from r by copy(...) or with_optimization_level(...), a
\* mutating call (add_library, enable_debugging) on one of the two changes no field
\* value of the other.
C2_DerivedRecordsShareNothing ==
    [][\A i \in Records, j \in Records :
          (last'.op \in {"add_library", "enable_debugging"} /\ last'.rec = i
           /\ calls' = calls + 1 /\ j # i
           /\ (DerivedFrom(j, i) \/ DerivedFrom(i, j)))
          => FieldValues(j)' = FieldValues(j)]_vars

\* C3: where the build-metadata read succeeds, every guess_toolchain call returns
\* the field values the first guess_toolchain call returned, and every
\* guess_nvcc_toolchain call those of the first guess_nvcc_toolchain call, whatever
\* add_library calls were made on the returned toolchains in between.
C3_GuessesAreFixed ==
    (/\ host.metadata
     /\ last.op \in {"guess_toolchain", "guess_nvcc_toolchain"}
     /\ ~last.raised)
    => GuessView(Fields(heap, tcs[last.new])) = first[last.op][1]

\* the entries of dirs that are not in old, each once, in the order first seen
RECURSIVE FirstSeenNew(_, _, _)
FirstSeenNew(old, dirs, k) ==
    IF k > Len(dirs) THEN <<>>
    ELSE (IF dirs[k] \notin Range(old) /\ \A m \in 1..(k - 1) : dirs[m] # dirs[k]
          THEN <<dirs[k]>> ELSE <<>>)
         \o FirstSeenNew(old, dirs, k + 1)

NoDuplicates(l) == \A a \in 1..Len(l), b \in 1..Len(l) : l[a] = l[b] => a = b

RECURSIVE LibrariesOf(_)
\* Nn ++ ... ++ N1 of the registrations N1, ..., Nn
LibrariesOf(regs) ==
    IF regs = <<>> THEN <<>>
    ELSE LibrariesOf(Tail(regs)) \o Head(regs).libraries

KeptFlag(f) ==
    /\ ~StartsWith(f, "-O")
    /\ ~StartsWith(f, "-g")
    /\ ~StartsWith(f, "-march")
    /\ ~StartsWith(f, "-mtune")
    /\ ~StartsWith(f, "-DNDEBUG")

\* the flags with_optimization_level is to add
AddedFlags(level) ==
    IF level.kind = "debug" THEN <<"-g">>
    ELSE <<"-O" \o ToString(level.n), "-DNDEBUG">>
         \o (IF level.n >= 2 /\ TupleGE(GetVersionTuple(host), <<4, 3>>)
             THEN <<"-march=native", "-mtune=native">> ELSE <<>>)

\* C10: with_optimization_level(level) on a GCC record returns a new record whose
\* cflags are the receiver's without the flags that start with -O, -g, -march,
\* -mtune or -DNDEBUG (the others in their order), followed by -g for "debug" and
\* otherwise by -O<level>, -DNDEBUG and, if and only if level >= 2 and the version
\* tuple is >= (4,3), -march=native and -mtune=native; the receiver's cflags are
\* unchanged.
C10_OptimizationLevelFlags ==
    [][\A i \in Records :
          (last'.op = "with_optimization_level" /\ last'.rec = i /\ ~last'.raised
           /\ calls' = calls + 1)
          => /\ last'.new = Len(tcs) + 1
             /\ Len(tcs') = Len(tcs) + 1
             /\ heap'[tcs'[Len(tcs')].cflags]
                  = SelectSeq(heap[tcs[i].cflags], KeptFlag) \o AddedFlags(last'.level)
             /\ heap'[tcs'[i].cflags] = heap[tcs[i].cflags]]_vars

C10_Witness ==
    /\ last.op = "with_optimization_level"
    /\ ~last.raised
    /\ last.level = IntLevel(1)
    /\ heap[tcs[last.rec].cflags]
         = <<"-fPIC", "-O2", "-DNDEBUG", "-march=native", "-mtune=native">>
    /\ heap[tcs[last.new].cflags] = <<"-fPIC", "-O1", "-DNDEBUG">>

\* the tokens <opt><x> of the entries x of l, in the order of l
Opt(opt, l) == [k \in 1..Len(l) |-> opt \o l[k]]

\* C4: for an NVCC configuration, build_object, build_extension and link_extension
\* each raise CompileError when the standard error of the spawned process contains
\* "error" (case-sensitive), even with exit status 0, and when the exit status is
\* not 0.
C4_NvccFailureIsReported ==
    (/\ out.op \in BuildOps
     /\ conf.family = "nvcc"
     /\ (Contains(out.stderr, "error") \/ out.rc # 0))
    => out.raised

Count(l, x) == Cardinality({k \in 1..Len(l) : l[k] = x})

\* the same entries, each as many times, in any order
SameEntries(a, b) ==
    /\ Len(a) = Len(b)
    /\ \A x \in Range(a) \cup Range(b) : Count(a, x) = Count(b, x)

\* C6: add_library for A then for B (distinct, not registered yet) leaves the same
\* include_dirs, library_dirs, libraries and features as for B then for A.
C6_RegistrationCommutes ==
    out.op = "add_library"
    => /\ out.ab.include_dirs = out.ba.include_dirs
       /\ out.ab.library_dirs = out.ba.library_dirs
       /\ out.ab.libraries = out.ba.libraries
       /\ out.ab.features = out.ba.features

\* C6, as amended: the two orders leave the same features and, in include_dirs,
\* library_dirs and libraries, the same entries, each as many times; the order of
\* the entries they added may differ.
C6_RegistrationCommutesUpToOrder ==
    out.op = "add_library"
    => /\ SameEntries(out.ab.include_dirs, out.ba.include_dirs)
       /\ SameEntries(out.ab.library_dirs, out.ba.library_dirs)
       /\ SameEntries(out.ab.libraries, out.ba.libraries)
       /\ out.ab.features = out.ba.features

C6_Witness ==
    /\ out.op = "add_library"
    /\ conf.libraries # <<>>
    /\ out.ab.libraries # out.ba.libraries
    /\ out.ab.include_dirs # out.ba.include_dirs

\* C8: get_dependencies hands the process collaborator cc, -M, a -D token per
\* define, a -U token per undefine, a -I token per include directory, then the
\* source files.
C8_DependencyArgv ==
    out.op = "get_dependencies"
    => out.argv
         = <<conf.cc, "-M">> \o Opt("-D", conf.defines) \o Opt("-U", conf.undefines)
           \o Opt("-I", conf.include_dirs) \o out.files

\* C9: _cmdline(files, mode) of a GCC or NVCC configuration is cc, cflags, the mode
\* flags, -D defines, -U undefines, -I include dirs, the files and the link tail,
\* each list in configuration order; in object mode the mode flags are -c and there
\* is no link tail; in link mode they are ldflags and the tail is every -L library
\* dir then every -l library, all after the last input file.
C9_CmdlineOrder ==
    out.op = "_cmdline"
    => LET head == <<conf.cc>> \o conf.cflags
                   \o (IF out.object THEN <<"-c">> ELSE conf.ldflags)
                   \o Opt("-D", conf.defines) \o Opt("-U", conf.undefines)
                   \o Opt("-I", conf.include_dirs) \o out.files
           tail == Opt("-L", conf.library_dirs) \o Opt("-l", conf.libraries)
       IN /\ out.object => out.argv = head
          /\ ~out.object => out.argv = head \o tail
          /\ ~out.object =>
               SubSeq(out.argv, Len(head) + 1, Len(out.argv)) = tail

C9_Witness ==
    /\ out.op = "_cmdline"
    /\ ~out.object
    /\ out.files # <<>>
    /\ conf.library_dirs # <<>>
    /\ conf.libraries # <<>>
    /\ conf.ldflags # <<>>


\* the three lists of record i that add_library extends
Resources(i) ==
    [include_dirs |-> heap[tcs[i].include_dirs],
     library_dirs |-> heap[tcs[i].library_dirs],
     libraries |-> tcs[i].libraries]

\* C11: if feature f was registered on r when r2 was derived from it by copy(...)
\* or with_optimization_level(...), then f is in r2's feature set and
\* r2.add_library(f, ...) leaves r2's include_dirs, library_dirs and libraries
\* unchanged.
C11_DerivedKeepsFeatures ==
    [][\A j \in Records :
          (last'.op = "add_library" /\ last'.rec = j /\ calls' = calls + 1
           /\ last'.feature \in tcs[j].inherited)
          => /\ last'.feature \in tcs[j].features
             /\ Resources(j)' = Resources(j)]_vars
====
